---- MODULE Spec2Model ----
(***************************************************************************)
(* Days-to-hire statistics: the batch job calculate_stats (home_task/      *)
(* calculate_stats.py) and the lookup endpoint get_days_to_hire_stats      *)
(* (home_task/main.py).                                                    *)
(*                                                                         *)
(* Python's Optional values are sequences of length at most one: None is   *)
(* <<>> and a present value v is <<v>>.  A table is a set of rows; the     *)
(* job_posting table is a sequence, the order in which the database        *)
(* returns its rows to an un-ordered SELECT.                               *)
(***************************************************************************)
EXTENDS Integers, Sequences, FiniteSets, TLC

VARIABLES
    dataset,          \* job_posting rows, in the order the source pages them
    store,            \* committed days_to_hire_stats rows (what readers see)
    session,          \* days_to_hire_stats rows as seen inside the job's transaction
    pc,               \* position of the batch job
    min_job_postings, \* --min-job-postings of the current run
    chunk_size,       \* --chunk-size of the current run, where the pages are stepped
    total_postings,   \* calculate_stats: total_postings
    offset,           \* calculate_stats: the page loop's offset
    stats_by_group,   \* calculate_stats: the dict, as its items in insertion order
    idx,              \* calculate_stats: position of the loop over stats_by_group.items()
    merged,           \* history: the <<key, row>> pairs handed to session.merge in this run
    store_before,     \* history: the committed table when the current run started
    last,             \* history: <<m>>, the threshold of the last completed run, while the
                      \* dataset is the one it ran on
    response,         \* the last answer of get_days_to_hire_stats, with its query
    values,           \* argument of a direct call of calculate_percentile_stats
    result            \* its result

vars == <<dataset, store, session, pc, min_job_postings, chunk_size, total_postings,
          offset, stats_by_group, idx, merged, store_before, last, response,
          values, result>>

runVars == <<min_job_postings, chunk_size, total_postings, offset, stats_by_group,
             idx, merged, store_before>>

pageVars == <<chunk_size, total_postings, offset>>

trimVars == <<values, result>>

None == <<>>

Some(v) == <<v>>

-----------------------------------------------------------------------------
(* Bounds of the model. *)

MaxPostings == 3

MaxThreshold == 2

MaxLen == 4

MaxAbsDay == 3

(* Program constants. *)

MinPercentile == 10

MaxPercentile == 90

DefaultMinJobPostings == 5

-----------------------------------------------------------------------------
(* Plain helpers. *)

Min(a, b) == IF a <= b THEN a ELSE b

RECURSIVE SumSeq(_)
SumSeq(s) == IF s = <<>> THEN 0 ELSE Head(s) + SumSeq(Tail(s))

RECURSIVE MinSeq(_)
MinSeq(s) ==
    IF Len(s) = 1 THEN s[1]
    ELSE LET m == MinSeq(Tail(s)) IN IF s[1] <= m THEN s[1] ELSE m

RECURSIVE MaxSeq(_)
MaxSeq(s) ==
    IF Len(s) = 1 THEN s[1]
    ELSE LET m == MaxSeq(Tail(s)) IN IF s[1] >= m THEN s[1] ELSE m

RECURSIVE Insert(_, _)
Insert(x, s) ==
    IF s = <<>> THEN <<x>>
    ELSE IF x <= Head(s) THEN <<x>> \o s
    ELSE <<Head(s)>> \o Insert(x, Tail(s))

RECURSIVE Sorted(_)
Sorted(s) == IF s = <<>> THEN <<>> ELSE Insert(Head(s), Sorted(Tail(s)))

(* int(x) of the quotient a / b, b > 0: truncation toward zero. *)
IntTrunc(a, b) == IF a >= 0 THEN a \div b ELSE -((-a) \div b)

-----------------------------------------------------------------------------
(* calculate_percentile_stats *)

Percentile100_lower(vs, p) ==
    LET s == Sorted(vs)
    IN  100 * s[(((Len(s) - 1) * p) \div 100) + 1]

(* np.percentile(vs, p), method "linear", times 100: the virtual index is  *)
(* (n - 1) * p / 100, and the result interpolates between the two order    *)
(* statistics around it.  Kept as an exact multiple of 1/100.              *)
Percentile100(vs, p) ==
    LET s == Sorted(vs)
        n == Len(s)
        lo == ((n - 1) * p) \div 100
        gamma == ((n - 1) * p) % 100
    IN  IF gamma = 0 THEN 100 * s[lo + 1]
        ELSE 100 * s[lo + 1] + (s[lo + 2] - s[lo + 1]) * gamma

(* values[(values >= min_value) & (values <= max_value)] *)
FilteredValues(vs, lo100, hi100) ==
    SelectSeq(vs, LAMBDA v : 100 * v >= lo100 /\ 100 * v <= hi100)

NoStats == <<None, None, None, 0>>

calculate_percentile_stats_allmean(vs) ==
    IF vs = <<>> THEN NoStats
    ELSE LET f == FilteredValues(vs, Percentile100(vs, MinPercentile),
                                 Percentile100(vs, MaxPercentile))
         IN  IF Len(f) = 0 THEN NoStats
             ELSE <<Some(MinSeq(f)), Some(MaxSeq(f)),
                    Some(IntTrunc(SumSeq(vs), Len(vs))), Len(f)>>

calculate_percentile_stats(vs) ==
    IF vs = <<>> THEN NoStats
    ELSE LET f == FilteredValues(vs, Percentile100(vs, MinPercentile),
                                 Percentile100(vs, MaxPercentile))
         IN  IF Len(f) = 0 THEN NoStats
             ELSE <<Some(MinSeq(f)), Some(MaxSeq(f)),
                    Some(IntTrunc(SumSeq(f), Len(f))), Len(f)>>

-----------------------------------------------------------------------------
(* The record source. *)

Posting(job, country, days) ==
    [standard_job_id |-> job, country_code |-> country, days_to_hire |-> days]

(* The rows the job_posting table is filled from: one job, with no country *)
(* (the world aggregate), an empty country code and a country.             *)
JobPostings ==
    {Posting("SJ1", None, Some(1)), Posting("SJ1", None, Some(11)),
     Posting("SJ1", Some(""), Some(1)), Posting("SJ1", Some("US"), Some(1))}

(* The same and a row without days_to_hire. *)
JobPostingsOrOpen == JobPostings \cup {Posting("SJ1", None, None)}

RECURSIVE SeqsUpTo(_, _)
SeqsUpTo(S, n) ==
    IF n = 0 THEN {<<>>}
    ELSE LET shorter == SeqsUpTo(S, n - 1)
         IN  shorter \cup {Append(s, x) : s \in {t \in shorter : Len(t) = n - 1}, x \in S}

(* WHERE days_to_hire IS NOT NULL *)
Eligible(rows) == SelectSeq(rows, LAMBDA p : p.days_to_hire # None)

get_total_postings_count(rows) == Len(Eligible(rows))

fetch_postings_chunk_skip(rows, off, limit) ==
    LET e == Eligible(rows)
    IN  SubSeq(e, off + 2, Min(off + limit, Len(e)))

(* OFFSET off LIMIT limit over the filtered rows *)
fetch_postings_chunk(rows, off, limit) ==
    LET e == Eligible(rows)
    IN  SubSeq(e, off + 1, Min(off + limit, Len(e)))

GroupKey(posting) == <<posting.standard_job_id, posting.country_code>>

HasKey(groups, key) == \E i \in 1..Len(groups) : groups[i].key = key

(* stats_by_group[key].append(days_to_hire), the entry created on first sight *)
AppendToGroup(groups, posting) ==
    LET key == GroupKey(posting)
        d == posting.days_to_hire[1]
    IN  IF HasKey(groups, key)
        THEN [i \in 1..Len(groups) |->
                IF groups[i].key = key
                THEN [key |-> key, values |-> Append(groups[i].values, d)]
                ELSE groups[i]]
        ELSE Append(groups, [key |-> key, values |-> <<d>>])

(* for posting in job_postings: ... *)
RECURSIVE GroupPage(_, _)
GroupPage(groups, page) ==
    IF page = <<>> THEN groups
    ELSE GroupPage(AppendToGroup(groups, Head(page)), Tail(page))

(* for offset in range(0, total_postings, chunk_size): the iterations from *)
(* offset off on.                                                          *)
RECURSIVE PageLoop(_, _, _, _, _)
PageLoop(groups, rows, off, total, limit) ==
    IF off >= total THEN groups
    ELSE PageLoop(GroupPage(groups, fetch_postings_chunk(rows, off, limit)),
                  rows, off + limit, total, limit)

-----------------------------------------------------------------------------
(* The persistence sink. *)

(* f"{standard_job_id}_{country_code or 'world'}" *)
StatsId(standard_job_id, country_code) ==
    standard_job_id \o "_" \o
        (IF country_code = None \/ country_code = Some("") THEN "world"
         ELSE country_code[1])

DaysToHireStats(key, stats) ==
    [id |-> StatsId(key[1], key[2]),
     standard_job_id |-> key[1],
     country_code |-> key[2],
     min_days_to_hire |-> stats[1],
     max_days_to_hire |-> stats[2],
     avg_days_to_hire |-> stats[3],
     job_posting_count |-> stats[4]]

session_merge_add(rows, row) == rows \cup {row}

session_merge_accumulate(rows, row) ==
    LET old == {r \in rows : r.id = row.id}
    IN  (rows \ old) \cup
        {[row EXCEPT !.job_posting_count =
            IF old = {} THEN @ ELSE @ + (CHOOSE r \in old : TRUE).job_posting_count]}

(* session.merge(stats): the row with this primary key is replaced, every  *)
(* attribute of the given object copied over it; inserted when absent.     *)
session_merge(rows, row) == {r \in rows : r.id # row.id} \cup {row}

(* The days_to_hire_stats columns take NULL (models.py is not part of the   *)
(* sources at hand; the data model lets min, max and avg be null).         *)
StatsRowAccepted(row) == TRUE

(* get_session(): a Session whose work stays in one transaction over the   *)
(* committed table until commit(); close() without commit rolls it back.   *)
get_session(committed) == committed

-----------------------------------------------------------------------------
(* get_days_to_hire_stats *)

(* The requests made: <<standard_job_id, country_code>>, the country code  *)
(* absent, empty or given.                                                 *)
Requests ==
    {<<"SJ1", None>>, <<"SJ1", Some("")>>, <<"SJ1", Some("US")>>, <<"SJ2", None>>}

NotFound == [status |-> 404]

(* An exception leaves the handler: the framework answers 500. *)
MultipleResultsFound == [status |-> 500, error |-> "MultipleResultsFound"]

TypeError == [status |-> 500, error |-> "TypeError"]

(* float(x): a TypeError for None *)
PyFloat(x) == [float |-> x[1]]

(* country_code if country_code else None *)
LookupCountry(country_code) ==
    IF country_code = None \/ country_code = Some("") THEN None ELSE country_code

Matching(rows, standard_job_id, country_code) ==
    {r \in rows : r.standard_job_id = standard_job_id
                  /\ r.country_code = LookupCountry(country_code)}

get_days_to_hire_stats(rows, standard_job_id, country_code) ==
    LET found == Matching(rows, standard_job_id, country_code)
    IN  IF found = {} THEN NotFound
        ELSE IF Cardinality(found) > 1 THEN MultipleResultsFound \* scalar_one_or_none raises
        ELSE LET stats == CHOOSE r \in found : TRUE
             IN  IF None \in {stats.min_days_to_hire, stats.avg_days_to_hire,
                              stats.max_days_to_hire}
                 THEN TypeError                              \* float(None) raises
                 ELSE [status |-> 200,
                       standard_job_id |-> stats.standard_job_id,
                       country_code |-> stats.country_code,
                       min_days |-> PyFloat(stats.min_days_to_hire),
                       avg_days |-> PyFloat(stats.avg_days_to_hire),
                       max_days |-> PyFloat(stats.max_days_to_hire),
                       job_postings_number |-> stats.job_posting_count]

-----------------------------------------------------------------------------
(* The state machine. *)

Thresholds == 0..MaxThreshold

ChunkSizes == 1..(MaxPostings + 1)

(* The locals of calculate_stats are gone once it is left. *)
NoLocals ==
    /\ min_job_postings' = 0
    /\ chunk_size' = 1
    /\ total_postings' = 0
    /\ offset' = 0
    /\ stats_by_group' = <<>>
    /\ idx' = 1

NoRun ==
    /\ NoLocals
    /\ merged' = <<>>

InitWith(rows) ==
    /\ dataset = rows
    /\ store = {}
    /\ session = {}
    /\ pc = "idle"
    /\ min_job_postings = 0
    /\ chunk_size = 1
    /\ total_postings = 0
    /\ offset = 0
    /\ stats_by_group = <<>>
    /\ idx = 1
    /\ merged = <<>>
    /\ store_before = {}
    /\ last = None
    /\ response = None
    /\ values = <<>>
    /\ result = None

Init == \E rows \in SeqsUpTo(JobPostings, MaxPostings) : InitWith(rows)

(* main(): parse the arguments, open the session, call calculate_stats. *)
Begin(m) ==
    /\ pc = "idle"
    /\ min_job_postings' = m
    /\ session' = get_session(store)
    /\ store_before' = store
    /\ stats_by_group' = <<>>
    /\ idx' = 1
    /\ merged' = <<>>
    /\ pc' = "group"
    /\ response' = None
    /\ UNCHANGED <<dataset, store, last>>
    /\ UNCHANGED pageVars
    /\ UNCHANGED trimVars

Start == \E m \in Thresholds : Begin(m)

(* calculate_stats up to the end of the page loop: count the eligible rows *)
(* and group them page by page.                                            *)
GroupPostings(c) ==
    /\ pc = "group"
    /\ stats_by_group' =
         PageLoop(<<>>, dataset, 0, get_total_postings_count(dataset), c)
    /\ pc' = "reduce"
    /\ response' = None
    /\ UNCHANGED <<dataset, store, session, min_job_postings, idx, merged,
                   store_before, last>>
    /\ UNCHANGED pageVars
    /\ UNCHANGED trimVars

Group == \E c \in ChunkSizes : GroupPostings(c)

(* The same, page by page: main() up to the count of the eligible rows ... *)
BeginPaged(m, c) ==
    /\ pc = "idle"
    /\ min_job_postings' = m
    /\ chunk_size' = c
    /\ session' = get_session(store)
    /\ store_before' = store
    /\ total_postings' = get_total_postings_count(dataset)
    /\ stats_by_group' = <<>>
    /\ offset' = 0
    /\ idx' = 1
    /\ merged' = <<>>
    /\ pc' = IF total_postings' > 0 THEN "fetch" ELSE "reduce"
    /\ response' = None
    /\ UNCHANGED <<dataset, store, last>>
    /\ UNCHANGED trimVars

StartPaged == \E m \in Thresholds, c \in ChunkSizes : BeginPaged(m, c)

(* ... and one iteration of: for offset in range(0, total_postings, chunk_size) *)
FetchPage ==
    /\ pc = "fetch"
    /\ stats_by_group' =
         GroupPage(stats_by_group, fetch_postings_chunk(dataset, offset, chunk_size))
    /\ offset' = offset + chunk_size
    /\ pc' = IF offset' < total_postings THEN "fetch" ELSE "reduce"
    /\ response' = None
    /\ UNCHANGED <<dataset, store, session, min_job_postings, chunk_size,
                   total_postings, idx, merged, store_before, last>>
    /\ UNCHANGED trimVars

(* The count or a page fetch raises: calculate_stats is left by the        *)
(* exception and main's finally closes the session, which rolls the        *)
(* transaction back.                                                       *)
SourceFetchFailure ==
    /\ pc \in {"group", "fetch"}
    /\ pc' = "failed"
    /\ session' = store
    /\ store_before' = store
    /\ NoLocals
    /\ UNCHANGED merged
    /\ response' = None
    /\ UNCHANGED <<dataset, store, last>>
    /\ UNCHANGED trimVars

ReduceGroup_commit_each ==
    /\ pc = "reduce"
    /\ idx <= Len(stats_by_group)
    /\ LET g == stats_by_group[idx]
           stats == calculate_percentile_stats(g.values)
           row == DaysToHireStats(g.key, stats)
       IN  IF stats[4] < min_job_postings
           THEN UNCHANGED <<session, merged, store>>
           ELSE /\ session' = session_merge(session, row)
                /\ merged' = Append(merged, <<g.key, row>>)
                /\ store' = session'
    /\ idx' = idx + 1
    /\ response' = None
    /\ UNCHANGED <<dataset, pc, min_job_postings, stats_by_group, store_before, last>>
    /\ UNCHANGED pageVars
    /\ UNCHANGED trimVars

(* One iteration of: for key, days_to_hire_values in stats_by_group.items() *)
ReduceGroup ==
    /\ pc = "reduce"
    /\ idx <= Len(stats_by_group)
    /\ LET g == stats_by_group[idx]
           stats == calculate_percentile_stats(g.values)
           row == DaysToHireStats(g.key, stats)
       IN  IF stats[4] < min_job_postings
           THEN UNCHANGED <<session, merged>>
           ELSE /\ session' = session_merge(session, row)
                /\ merged' = Append(merged, <<g.key, row>>)
    /\ idx' = idx + 1
    /\ response' = None
    /\ UNCHANGED <<dataset, store, pc, min_job_postings, stats_by_group, store_before,
                   last>>
    /\ UNCHANGED pageVars
    /\ UNCHANGED trimVars

(* A flush or the commit raises: the transaction is rolled back in full. *)
PersistenceFailure ==
    /\ pc = "reduce"
    /\ pc' = "failed"
    /\ session' = store
    /\ store_before' = store
    /\ NoLocals
    /\ UNCHANGED merged
    /\ response' = None
    /\ UNCHANGED <<dataset, store, last>>
    /\ UNCHANGED trimVars

(* session.commit() *)
Commit ==
    /\ pc = "reduce"
    /\ idx > Len(stats_by_group)
    /\ \A r \in session : StatsRowAccepted(r)
    /\ store' = session
    /\ pc' = "done"
    /\ response' = None
    /\ UNCHANGED <<dataset, session, last>>
    /\ UNCHANGED runVars
    /\ UNCHANGED trimVars

(* main() returns (or the exception leaves it); the process ends. *)
Return ==
    /\ pc \in {"done", "failed"}
    /\ pc' = "idle"
    /\ last' = IF pc = "done" THEN Some(min_job_postings) ELSE last
    /\ store_before' = store
    /\ NoRun
    /\ response' = None
    /\ UNCHANGED <<dataset, store, session>>
    /\ UNCHANGED trimVars

(* The job_posting table grows between runs. *)
AddPosting ==
    /\ pc = "idle"
    /\ Len(dataset) < MaxPostings
    /\ \E p \in JobPostings : dataset' = Append(dataset, p)
    /\ last' = None
    /\ response' = None
    /\ UNCHANGED <<store, session, pc>>
    /\ UNCHANGED runVars
    /\ UNCHANGED trimVars

(* A request to /days-to-hire-stats, at any moment of a run: it reads the  *)
(* committed table in a session of its own.  The answer is kept until the  *)
(* job takes its next step.                                                *)
Lookup ==
    \E q \in Requests :
        /\ response' = Some([standard_job_id |-> q[1], country_code |-> q[2],
                             answer |-> get_days_to_hire_stats(store, q[1], q[2])])
        /\ UNCHANGED <<dataset, store, session, pc, last>>
        /\ UNCHANGED runVars
        /\ UNCHANGED trimVars

Next ==
    \/ Start
    \/ Group
    \/ SourceFetchFailure
    \/ ReduceGroup
    \/ PersistenceFailure
    \/ Commit
    \/ Return
    \/ AddPosting
    \/ Lookup

Spec == Init /\ [][Next]_vars

-----------------------------------------------------------------------------
(* The same job with its page loop stepped page by page, on a fixed table. *)

NextPaged ==
    \/ StartPaged
    \/ FetchPage
    \/ SourceFetchFailure
    \/ ReduceGroup
    \/ PersistenceFailure
    \/ Commit
    \/ Return

InitPaged == \E rows \in SeqsUpTo(JobPostingsOrOpen, MaxPostings) : InitWith(rows)

SpecPaged == InitPaged /\ [][NextPaged]_vars

-----------------------------------------------------------------------------
(* The worked example: ten postings of SJ1 without a country, the default  *)
(* threshold, any page size up to the row count plus one.                  *)

ExampleDays == <<10, 12, 11, 13, 9, 14, 10, 12, 11, 100>>

ExamplePostings == [i \in 1..Len(ExampleDays) |-> Posting("SJ1", None, Some(ExampleDays[i]))]

InitExample == InitWith(ExamplePostings)

StartExample ==
    \E c \in 1..(Len(ExamplePostings) + 1) : BeginPaged(DefaultMinJobPostings, c)

NextExample ==
    \/ StartExample
    \/ FetchPage
    \/ SourceFetchFailure
    \/ ReduceGroup
    \/ PersistenceFailure
    \/ Commit
    \/ Return
    \/ Lookup

SpecExample == InitExample /\ [][NextExample]_vars

-----------------------------------------------------------------------------
(* Direct calls of calculate_percentile_stats. *)

TrimInputs == SeqsUpTo((-MaxAbsDay)..MaxAbsDay, MaxLen)

InitTrim ==
    /\ dataset = <<>>
    /\ store = {}
    /\ session = {}
    /\ pc = "idle"
    /\ min_job_postings = 0
    /\ chunk_size = 1
    /\ total_postings = 0
    /\ offset = 0
    /\ stats_by_group = <<>>
    /\ idx = 1
    /\ merged = <<>>
    /\ store_before = {}
    /\ last = None
    /\ response = None
    /\ values \in TrimInputs
    /\ result = None

CallTrim ==
    /\ result = None
    /\ result' = Some(calculate_percentile_stats(values))
    /\ UNCHANGED <<dataset, store, session, pc, last, response, values>>
    /\ UNCHANGED runVars

NextTrim == CallTrim

SpecTrim == InitTrim /\ [][NextTrim]_vars

-----------------------------------------------------------------------------
(* Properties. *)

RECURSIVE SumAt(_, _)
SumAt(s, I) ==
    IF I = {} THEN 0
    ELSE LET i == CHOOSE k \in I : TRUE IN s[i] + SumAt(s, I \ {i})

(* The positions of vs whose value lies in the inclusive band between the  *)
(* two percentiles.                                                        *)
Retained(vs) ==
    {i \in 1..Len(vs) : /\ 100 * vs[i] >= Percentile100(vs, MinPercentile)
                        /\ 100 * vs[i] <= Percentile100(vs, MaxPercentile)}

(* q is the quotient sum / n cut toward zero. *)
IsTruncatedQuotient(q, sum, n) ==
    IF sum >= 0 THEN q * n <= sum /\ sum < (q + 1) * n
    ELSE (q - 1) * n < sum /\ sum <= q * n

(* C7: for every sequence of integers, negative ones included,             *)
(* calculate_percentile_stats returns a count that is the number of values *)
(* in the inclusive [10th, 90th] percentile band and at most len(values);  *)
(* when the count is positive, min and max are the extremes of the         *)
(* retained values, mean is their average cut toward zero, and             *)
(* min <= mean <= max; for the empty sequence and for a band that retains  *)
(* nothing the result is (None, None, None, 0).                            *)
TrimContract ==
    result # None =>
        LET r == result[1]
            kept == IF values = <<>> THEN {} ELSE Retained(values)
        IN  /\ r[4] = Cardinality(kept)
            /\ r[4] <= Len(values)
            /\ (kept = {}) => r = <<None, None, None, 0>>
            /\ (kept # {}) =>
                 /\ r[1] # None /\ r[2] # None /\ r[3] # None
                 /\ \E i \in kept : values[i] = r[1][1]
                 /\ \A i \in kept : r[1][1] <= values[i]
                 /\ \E i \in kept : values[i] = r[2][1]
                 /\ \A i \in kept : values[i] <= r[2][1]
                 /\ IsTruncatedQuotient(r[3][1], SumAt(values, kept), r[4])
                 /\ r[1][1] <= r[3][1]
                 /\ r[3][1] <= r[2][1]

(* A call that trims: negative values, fewer retained than given, and an   *)
(* average that is negative and not whole.                                 *)
TrimWitness ==
    /\ result # None
    /\ result[1][4] > 0
    /\ result[1][4] < Len(values)
    /\ \E i \in 1..Len(values) : values[i] < 0
    /\ SumAt(values, Retained(values)) < 0
    /\ SumAt(values, Retained(values)) % result[1][4] # 0

(* The postings the page queries range over, in the source's order. *)
EligibleRows == SelectSeq(dataset, LAMBDA p : p.days_to_hire # None)

(* The durations of the rows with the given key, in the source's order. *)
DurationsOf(key) ==
    LET rows == SelectSeq(EligibleRows,
                          LAMBDA p : <<p.standard_job_id, p.country_code>> = key)
    IN  [i \in 1..Len(rows) |-> rows[i].days_to_hire[1]]

FirstRow(key) ==
    CHOOSE i \in 1..Len(EligibleRows) :
        /\ <<EligibleRows[i].standard_job_id, EligibleRows[i].country_code>> = key
        /\ \A j \in 1..(i - 1) :
             <<EligibleRows[j].standard_job_id, EligibleRows[j].country_code>> # key

(* C1: after the page loop, whatever the page size, stats_by_group has one *)
(* bucket for each (standard_job_id, country_code) key among the eligible  *)
(* rows, a key without a country apart from every key with one; each       *)
(* bucket holds exactly the durations of the rows of its key (none         *)
(* dropped, none duplicated, none from another key), so the buckets        *)
(* together hold as many values as there are eligible rows; the buckets    *)
(* stand in the order in which their keys first occur.  Nothing in this    *)
(* depends on the page size.                                               *)
GroupingExact ==
    pc \in {"reduce", "done"} =>
        /\ \A i, j \in 1..Len(stats_by_group) :
             stats_by_group[i].key = stats_by_group[j].key => i = j
        /\ {stats_by_group[i].key : i \in 1..Len(stats_by_group)} =
             {<<EligibleRows[k].standard_job_id, EligibleRows[k].country_code>> :
                 k \in 1..Len(EligibleRows)}
        /\ \A i \in 1..Len(stats_by_group) :
             stats_by_group[i].values = DurationsOf(stats_by_group[i].key)
        /\ SumSeq([i \in 1..Len(stats_by_group) |-> Len(stats_by_group[i].values)])
             = Len(EligibleRows)
        /\ \A i, j \in 1..Len(stats_by_group) :
             i < j => FirstRow(stats_by_group[i].key) < FirstRow(stats_by_group[j].key)

(* Two eligible rows and one without a duration between them, fetched in   *)
(* pages of one into a bucket without a country and one with an empty      *)
(* country code.                                                           *)
GroupingWitness ==
    /\ pc = "reduce"
    /\ chunk_size = 1
    /\ total_postings = 2
    /\ offset = 2
    /\ Len(dataset) = 3
    /\ dataset[2].days_to_hire = None
    /\ Len(stats_by_group) = 2
    /\ stats_by_group[1].key = <<"SJ1", None>>
    /\ stats_by_group[2].key = <<"SJ1", Some("")>>

(* The trimmed summary of a bucket, as the properties read it: count, and  *)
(* the extremes and the truncated average of the retained values.          *)
TrimmedCount(vs) == Cardinality(Retained(vs))

MeetsThreshold(g) == TrimmedCount(g.values) >= min_job_postings

(* "{standard_job_id}_{country_code or 'world'}" of a key *)
IdOf(key) ==
    key[1] \o "_" \o (IF key[2] = None \/ key[2] = Some("") THEN "world" ELSE key[2][1])

(* row is the record of bucket g: its id, its key and its trimmed summary. *)
IsRecordOf(row, g) ==
    LET kept == Retained(g.values)
    IN  /\ row.id = IdOf(g.key)
        /\ row.standard_job_id = g.key[1]
        /\ row.country_code = g.key[2]
        /\ row.job_posting_count = Cardinality(kept)
        /\ IF kept = {}
           THEN /\ row.min_days_to_hire = None
                /\ row.max_days_to_hire = None
                /\ row.avg_days_to_hire = None
           ELSE /\ row.min_days_to_hire # None
                /\ row.max_days_to_hire # None
                /\ row.avg_days_to_hire # None
                /\ \E i \in kept : g.values[i] = row.min_days_to_hire[1]
                /\ \A i \in kept : row.min_days_to_hire[1] <= g.values[i]
                /\ \E i \in kept : g.values[i] = row.max_days_to_hire[1]
                /\ \A i \in kept : g.values[i] <= row.max_days_to_hire[1]
                /\ IsTruncatedQuotient(row.avg_days_to_hire[1], SumAt(g.values, kept),
                                       Cardinality(kept))

Groups == {stats_by_group[i] : i \in 1..Len(stats_by_group)}

(* C2: after a successful run, a group below the threshold has had no      *)
(* record written, and a group at or above it has exactly one persisted    *)
(* record under its id, which carries that group's own key and summary.    *)
ThresholdRecords ==
    pc = "done" =>
        \A g \in Groups :
            IF MeetsThreshold(g)
            THEN /\ Cardinality({r \in store : r.id = IdOf(g.key)}) = 1
                 /\ \A r \in store : r.id = IdOf(g.key) => IsRecordOf(r, g)
            ELSE \A i \in 1..Len(merged) : merged[i][1] # g.key

(* C5: a run leaves alone the record under the id of every group it skips  *)
(* for being below the threshold, and every record whose id is not that of *)
(* a group at or above the threshold.                                      *)
SkippedUntouched ==
    pc = "done" =>
        /\ \A g \in Groups :
             ~MeetsThreshold(g) =>
                \A r \in store_before : r.id = IdOf(g.key) => r \in store
        /\ \A r \in store \cup store_before :
             (\A g \in Groups : MeetsThreshold(g) => r.id # IdOf(g.key))
                => (r \in store /\ r \in store_before)

(* The part of C5 that does not meet the shared id: records whose id is    *)
(* not that of a group at or above the threshold are left as they were.    *)
OtherIdsUntouched ==
    pc = "done" =>
        \A r \in store \cup store_before :
            (\A g \in Groups : MeetsThreshold(g) => r.id # IdOf(g.key))
                => (r \in store /\ r \in store_before)

(* The committed table a completed run leaves: the rows of store_before    *)
(* whose id no written group has, and for each written id the record of    *)
(* the last group of that id.                                              *)
LastWithId(id) ==
    CHOOSE i \in 1..Len(stats_by_group) :
        /\ MeetsThreshold(stats_by_group[i]) /\ IdOf(stats_by_group[i].key) = id
        /\ \A j \in (i + 1)..Len(stats_by_group) :
             ~(MeetsThreshold(stats_by_group[j]) /\ IdOf(stats_by_group[j].key) = id)

WrittenIds == {IdOf(g.key) : g \in {h \in Groups : MeetsThreshold(h)}}

IsPostRunStore(rows) ==
    /\ \A r \in store_before : r.id \notin WrittenIds => r \in rows
    /\ \A r \in rows : r.id \notin WrittenIds => r \in store_before
    /\ \A id \in WrittenIds :
         /\ Cardinality({r \in rows : r.id = id}) = 1
         /\ \A r \in rows : r.id = id => IsRecordOf(r, stats_by_group[LastWithId(id)])

(* C3: at every point of every run, failed runs included, the committed    *)
(* table, which is what a concurrent lookup reads, is the table as it was  *)
(* when the run started or, once the run has completed, the table with all *)
(* of the run's records; an answer given during a run is the answer the    *)
(* table of before the run gives.                                          *)
AtomicVisibility ==
    /\ \/ store = store_before
       \/ pc = "done" /\ IsPostRunStore(store)
    /\ pc = "done" => IsPostRunStore(store)
    /\ pc = "failed" => store = store_before
    /\ (response # None /\ pc \in {"group", "reduce", "failed"}) =>
          response[1].answer =
              get_days_to_hire_stats(store_before, response[1].standard_job_id,
                                     response[1].country_code)

(* A lookup answered while a run has merged one of its two records and not *)
(* yet the other, over a table that held a record before the run.          *)
AtomicWitness ==
    /\ pc = "reduce"
    /\ Len(merged) = 1
    /\ idx = 2
    /\ Len(stats_by_group) = 2
    /\ MeetsThreshold(stats_by_group[2])
    /\ IdOf(stats_by_group[1].key) # IdOf(stats_by_group[2].key)
    /\ store_before # {}
    /\ session # store
    /\ response # None
    /\ response[1].answer.status = 200

(* C4: a run that follows a completed run with the same threshold on the   *)
(* unchanged table, whatever the page sizes of the two, leaves the         *)
(* committed table exactly as that run left it.                            *)
Idempotent ==
    (pc = "done" /\ last = Some(min_job_postings)) => store = store_before

(* A second run completed that re-merged two records. *)
IdempotentWitness ==
    /\ pc = "done"
    /\ last = Some(min_job_postings)
    /\ Len(merged) = 2
    /\ Cardinality(store) = 2

(* C10: the committed table never holds two records with the same          *)
(* standard_job_id and country_code, so no request matches more than one   *)
(* row and no answer is the multiple-rows failure of scalar_one_or_none.   *)
SingleMatch ==
    /\ \A r1, r2 \in store :
         (r1.standard_job_id = r2.standard_job_id /\ r1.country_code = r2.country_code)
            => r1 = r2
    /\ \A q \in Requests :
         Cardinality({r \in store :
                        /\ r.standard_job_id = q[1]
                        /\ r.country_code = (IF q[2] = Some("") THEN None ELSE q[2])}) <= 1
    /\ response # None => response[1].answer # MultipleResultsFound

(* A run on a grown table replaced the record an earlier run had left     *)
(* under the same id by a different one.                                   *)
SingleMatchWitness ==
    /\ pc = "done"
    /\ \E r \in store, r0 \in store_before :
         /\ r.id = r0.id
         /\ r.country_code = r0.country_code
         /\ r # r0

(* The answer the endpoint owes for a record. *)
AnswerFor(r) ==
    [status |-> 200,
     standard_job_id |-> r.standard_job_id,
     country_code |-> r.country_code,
     min_days |-> [float |-> r.min_days_to_hire[1]],
     avg_days |-> [float |-> r.avg_days_to_hire[1]],
     max_days |-> [float |-> r.max_days_to_hire[1]],
     job_postings_number |-> r.job_posting_count]

(* The records a request is for: an absent country code (an empty one is   *)
(* read as absent, as the handler does) is for the record without a        *)
(* country only.                                                           *)
RequestedRecords(job, country) ==
    {r \in store :
        /\ r.standard_job_id = job
        /\ r.country_code = (IF country = Some("") THEN None ELSE country)}

(* C6: every answer is the persisted record whose standard_job_id and      *)
(* country_code are those of the request, or 404 when there is none.       *)
LookupExact ==
    response # None =>
        LET q == response[1]
            wanted == RequestedRecords(q.standard_job_id, q.country_code)
        IN  IF wanted = {} THEN q.answer = [status |-> 404]
            ELSE \E r \in wanted :
                    /\ r.min_days_to_hire # None
                    /\ r.avg_days_to_hire # None
                    /\ r.max_days_to_hire # None
                    /\ q.answer = AnswerFor(r)

(* C9: every persisted record has min, avg and max, ordered                *)
(* min <= avg <= max, and a count of at least one; no lookup fails on the  *)
(* numeric conversion of a null.                                           *)
PersistedRecordsSound ==
    /\ \A r \in store :
         /\ r.min_days_to_hire # None
         /\ r.avg_days_to_hire # None
         /\ r.max_days_to_hire # None
         /\ r.min_days_to_hire[1] <= r.avg_days_to_hire[1]
         /\ r.avg_days_to_hire[1] <= r.max_days_to_hire[1]
         /\ r.job_posting_count >= 1
    /\ response # None => response[1].answer # TypeError

(* The record the worked example is to leave, with the given extremes,     *)
(* average and count.                                                      *)
ExampleRecord(lo, hi, avg, n) ==
    [id |-> "SJ1_world", standard_job_id |-> "SJ1", country_code |-> None,
     min_days_to_hire |-> Some(lo), max_days_to_hire |-> Some(hi),
     avg_days_to_hire |-> Some(avg), job_posting_count |-> n]

(* C8 as stated: the completed run persists exactly one record, with id    *)
(* "SJ1_world", min_days_to_hire 9, max_days_to_hire 14, a count of 8 or 9 *)
(* and min <= avg <= max.                                                  *)
ExampleAsStated ==
    pc = "done" =>
        \E avg \in 9..14, n \in {8, 9} : store = {ExampleRecord(9, 14, avg, n)}

(* C8 as the code runs it: the 10th percentile of the ten values is 9.9    *)
(* and the 90th is 22.6, so the 9 is trimmed together with the 100; the    *)
(* completed run persists exactly one record, with id "SJ1_world",         *)
(* min_days_to_hire 10, max_days_to_hire 14, avg_days_to_hire 11 and       *)
(* job_posting_count 8, whatever the page size; from then on the request   *)
(* (SJ1, no country) is answered with that record and (SJ1, US) with 404.  *)
ExampleRun ==
    /\ store = {} \/ store = {ExampleRecord(10, 14, 11, 8)}
    /\ (pc = "done" \/ last # None) => store = {ExampleRecord(10, 14, 11, 8)}
    /\ (response # None /\ store # {}) =>
         LET q == response[1]
         IN  /\ (q.standard_job_id = "SJ1" /\ q.country_code = None) =>
                  q.answer = [status |-> 200, standard_job_id |-> "SJ1",
                              country_code |-> None, min_days |-> [float |-> 10],
                              avg_days |-> [float |-> 11], max_days |-> [float |-> 14],
                              job_postings_number |-> 8]
             /\ (q.standard_job_id = "SJ1" /\ q.country_code = Some("US")) =>
                  q.answer = [status |-> 404]

(* The example run in pages of seven has completed and the request for US  *)
(* was answered.                                                           *)
ExampleWitness ==
    /\ pc = "done"
    /\ chunk_size = 7
    /\ store_before = {}
    /\ store # {}
    /\ response # None
    /\ response[1].country_code = Some("US")
    /\ response[1].answer = [status |-> 404]

====
